---- MODULE Spec2Model ----
(***************************************************************************)
(* Model of the YClip backend (src/main.py): the POST /api/analyze handler *)
(* analyze_video, the provider calls it makes, the scratch file it stages  *)
(* and the normalisation of the model's reply.                             *)
(*                                                                         *)
(* Text is modelled as a sequence of tokens.  A token is one character     *)
(* (a backquote, "{", a quote, a blank ...) or one word the code never     *)
(* looks inside                                                            *)
(* ("json", "clips", "00:01:02").  str.replace, str.strip and              *)
(* json.loads are computed on these sequences.                             *)
(***************************************************************************)
EXTENDS Integers, Sequences, FiniteSets, TLC

\* The double quote character.
Quote == "dq"
\* The backquote character.
Tick == "bq"
Ws == {" ", "\n"}

\* The two literals removed at src/main.py:209.
FenceJson == <<Tick, Tick, Tick, "json">>
Fence == <<Tick, Tick, Tick>>

(***************************************************************************)
(* str.replace(old, ""): left to right, non-overlapping.                   *)
(***************************************************************************)
RECURSIVE Remove(_, _)
Remove(s, old) ==
  IF Len(s) < Len(old) THEN s
  ELSE IF SubSeq(s, 1, Len(old)) = old
       THEN Remove(SubSeq(s, Len(old) + 1, Len(s)), old)
       ELSE <<Head(s)>> \o Remove(Tail(s), old)

RECURSIVE LStrip(_)
LStrip(s) == IF s # <<>> /\ Head(s) \in Ws THEN LStrip(Tail(s)) ELSE s

RECURSIVE RStrip(_)
RStrip(s) ==
  IF s # <<>> /\ s[Len(s)] \in Ws THEN RStrip(SubSeq(s, 1, Len(s) - 1)) ELSE s

Strip(s) == RStrip(LStrip(s))

\* Clean with the two replacements in the other order.
CleanFenceFirst(text) == Strip(Remove(Remove(text, Fence), FenceJson))

\* text.replace("```json", "").replace("```", "").strip()
Clean(text) == Strip(Remove(Remove(text, FenceJson), Fence))

(***************************************************************************)
(* JSON values, as json.loads builds them.                                 *)
(***************************************************************************)
JStr(s) == [t |-> "str", s |-> s, items |-> <<>>, pairs |-> <<>>]
JNum == [t |-> "num", s |-> <<>>, items |-> <<>>, pairs |-> <<>>]
JBool == [t |-> "bool", s |-> <<>>, items |-> <<>>, pairs |-> <<>>]
JNull == [t |-> "null", s |-> <<>>, items |-> <<>>, pairs |-> <<>>]
JList(items) == [t |-> "list", s |-> <<>>, items |-> items, pairs |-> <<>>]
\* pairs: the members in document order, each <<key tokens, value>>
JDict(pairs) == [t |-> "dict", s |-> <<>>, items |-> <<>>, pairs |-> pairs]

ScalarOf(tok) ==
  CASE tok = "1" -> JNum
    [] tok = "true" -> JBool
    [] OTHER -> JNull
Scalars == {"1", "true", "null"}

Ok(v, i) == [ok |-> TRUE, val |-> v, pos |-> i, err |-> ""]
Bad(m, i) == [ok |-> FALSE, val |-> JNull, pos |-> i, err |-> m]

RECURSIVE Skip(_, _)
Skip(toks, i) ==
  IF i <= Len(toks) /\ toks[i] \in Ws THEN Skip(toks, i + 1) ELSE i

\* Index of the closing quote of the string whose content starts at j;
\* 0 when the text ends first, -k when a raw control character sits at k.
RECURSIVE ScanString(_, _)
ScanString(toks, j) ==
  IF j > Len(toks) THEN 0
  ELSE IF toks[j] = Quote THEN j
  ELSE IF toks[j] = "\n" THEN 0 - j
  ELSE ScanString(toks, j + 1)

ParseString(toks, i) ==
  LET j == ScanString(toks, i + 1) IN
  IF j = 0 THEN Bad("Unterminated string starting at", i)
  ELSE IF j < 0 THEN Bad("Invalid control character at", 0 - j)
  ELSE Ok(JStr(SubSeq(toks, i + 1, j - 1)), j + 1)

RECURSIVE ParseValue(_, _)
RECURSIVE ParseItems(_, _, _)
RECURSIVE ParseMembers(_, _, _)

ParseValue(toks, i) ==
  IF i > Len(toks) THEN Bad("Expecting value", i)
  ELSE IF toks[i] = Quote THEN ParseString(toks, i)
  ELSE IF toks[i] = "{" THEN
    LET j == Skip(toks, i + 1) IN
    IF j <= Len(toks) /\ toks[j] = "}" THEN Ok(JDict(<<>>), j + 1)
    ELSE ParseMembers(toks, j, <<>>)
  ELSE IF toks[i] = "[" THEN
    LET j == Skip(toks, i + 1) IN
    IF j <= Len(toks) /\ toks[j] = "]" THEN Ok(JList(<<>>), j + 1)
    ELSE ParseItems(toks, j, <<>>)
  ELSE IF toks[i] \in Scalars THEN Ok(ScalarOf(toks[i]), i + 1)
  ELSE Bad("Expecting value", i)

ParseItems(toks, i, acc) ==
  LET r == ParseValue(toks, i) IN
  IF ~r.ok THEN r
  ELSE LET j == Skip(toks, r.pos) IN
       IF j <= Len(toks) /\ toks[j] = "]"
       THEN Ok(JList(Append(acc, r.val)), j + 1)
       ELSE IF j <= Len(toks) /\ toks[j] = ","
       THEN ParseItems(toks, Skip(toks, j + 1), Append(acc, r.val))
       ELSE Bad("Expecting ',' delimiter", j)

ParseMembers(toks, i, acc) ==
  IF i > Len(toks) \/ toks[i] # Quote
  THEN Bad("Expecting property name enclosed in double quotes", i)
  ELSE LET k == ParseString(toks, i) IN
       IF ~k.ok THEN k
       ELSE LET c == Skip(toks, k.pos) IN
            IF c > Len(toks) \/ toks[c] # ":"
            THEN Bad("Expecting ':' delimiter", c)
            ELSE LET v == ParseValue(toks, Skip(toks, c + 1)) IN
                 IF ~v.ok THEN v
                 ELSE LET j == Skip(toks, v.pos)
                          acc2 == Append(acc, <<k.val.s, v.val>>)
                      IN IF j <= Len(toks) /\ toks[j] = "}"
                         THEN Ok(JDict(acc2), j + 1)
                         ELSE IF j <= Len(toks) /\ toks[j] = ","
                         THEN ParseMembers(toks, Skip(toks, j + 1), acc2)
                         ELSE Bad("Expecting ',' delimiter", j)

\* json.loads(text): one value, blanks around it, nothing else.
Loads(text) ==
  LET r == ParseValue(text, Skip(text, 1)) IN
  IF ~r.ok THEN r
  ELSE LET e == Skip(text, r.pos) IN
       IF e <= Len(text) THEN Bad("Extra data", e) ELSE r

\* "key" in data, data[key] on a dict built from pairs (the last duplicate wins).
HasKey(d, key) == \E i \in 1..Len(d.pairs) : d.pairs[i][1] = key
Lookup(d, key) ==
  LET i == CHOOSE i \in 1..Len(d.pairs) :
             /\ d.pairs[i][1] = key
             /\ \A j \in (i + 1)..Len(d.pairs) : d.pairs[j][1] # key
  IN d.pairs[i][2]

(***************************************************************************)
(* Exceptions and the text str(e) gives for them.                          *)
(***************************************************************************)
NoExc == [type |-> "", status |-> 0, detail |-> ""]
Exc(type, msg) == [type |-> type, status |-> 0, detail |-> msg]
HTTPException(status_code, detail) ==
  [type |-> "HTTPException", status |-> status_code, detail |-> detail]

\* str(e); for an HTTPException it is "<status_code>: <detail>".
Str(e) ==
  IF e.type = "HTTPException" THEN ToString(e.status) \o ": " \o e.detail
  ELSE e.detail

(***************************************************************************)
(* ClipResponse / AnalyzeResponse(clips=v): the declared response shape.   *)
(***************************************************************************)
ClipFields == {<<"start">>, <<"end">>, <<"description">>}

IsClip(item) ==
  /\ item.t = "dict"
  /\ \A k \in ClipFields : HasKey(item, k) /\ Lookup(item, k).t = "str"

ClipResponse(item) ==
  [start |-> Lookup(item, <<"start">>).s,
   end |-> Lookup(item, <<"end">>).s,
   description |-> Lookup(item, <<"description">>).s]

Returned(clips) == [ok |-> TRUE, clips |-> clips, exc |-> NoExc]
Raised(e) == [ok |-> FALSE, clips |-> <<>>, exc |-> e]

AnalyzeResponse(v) ==
  IF v.t # "list"
  THEN Raised(Exc("ValidationError", "validation error for AnalyzeResponse: clips"))
  ELSE IF \E i \in 1..Len(v.items) : ~IsClip(v.items[i])
  THEN LET i == CHOOSE i \in 1..Len(v.items) :
                  /\ ~IsClip(v.items[i])
                  /\ \A j \in 1..(i - 1) : IsClip(v.items[j])
       IN Raised(Exc("ValidationError",
                     "validation error for AnalyzeResponse: clips." \o ToString(i - 1)))
  ELSE IF v.items = <<>> THEN Returned(<<>>)
  ELSE Returned([i \in 1..Len(v.items) |-> ClipResponse(v.items[i])])

\* What the model's reply is: reply.kind = "text" with the tokens of
\* response.text, or "notext" when response.text is None.
TextReply(text) == [kind |-> "text", text |-> text]
NoTextReply == [kind |-> "notext", text |-> <<>>]
NoReply == [kind |-> "none", text |-> <<>>]

\* ParseResponse without the branch for a bare list.
ParseResponseDictOnly(reply) ==
  IF reply.kind = "notext"
  THEN Raised(Exc("AttributeError", "'NoneType' object has no attribute 'replace'"))
  ELSE LET r == Loads(Clean(reply.text)) IN
       IF ~r.ok
       THEN Raised(Exc("JSONDecodeError", r.err \o ": char " \o ToString(r.pos - 1)))
       ELSE IF r.val.t = "dict" /\ HasKey(r.val, <<"clips">>)
       THEN AnalyzeResponse(Lookup(r.val, <<"clips">>))
       ELSE AnalyzeResponse(JList(<<>>))

\* Lines 207-217: clean, parse, pick the clip list by shape, coerce.
ParseResponse(reply) ==
  IF reply.kind = "notext"
  THEN Raised(Exc("AttributeError", "'NoneType' object has no attribute 'replace'"))
  ELSE LET r == Loads(Clean(reply.text)) IN
       IF ~r.ok
       THEN Raised(Exc("JSONDecodeError", r.err \o ": char " \o ToString(r.pos - 1)))
       ELSE IF r.val.t = "dict" /\ HasKey(r.val, <<"clips">>)
       THEN AnalyzeResponse(Lookup(r.val, <<"clips">>))
       ELSE IF r.val.t = "list"
       THEN AnalyzeResponse(r.val)
       ELSE AnalyzeResponse(JList(<<>>))

(***************************************************************************)
(* The replies the model is taken to give: JSON documents, written out     *)
(* without blanks, and decorated or damaged variants of them.              *)
(***************************************************************************)
RECURSIVE Dumps(_)
RECURSIVE DumpItems(_)
RECURSIVE DumpPairs(_)
Dumps(v) ==
  CASE v.t = "str" -> <<Quote>> \o v.s \o <<Quote>>
    [] v.t = "num" -> <<"1">>
    [] v.t = "bool" -> <<"true">>
    [] v.t = "null" -> <<"null">>
    [] v.t = "list" -> <<"[">> \o DumpItems(v.items) \o <<"]">>
    [] v.t = "dict" -> <<"{">> \o DumpPairs(v.pairs) \o <<"}">>
DumpItems(items) ==
  IF items = <<>> THEN <<>>
  ELSE IF Len(items) = 1 THEN Dumps(items[1])
  ELSE Dumps(items[1]) \o <<",">> \o DumpItems(Tail(items))
DumpPairs(pairs) ==
  IF pairs = <<>> THEN <<>>
  ELSE LET m == <<Quote>> \o pairs[1][1] \o <<Quote, ":">> \o Dumps(pairs[1][2]) IN
       IF Len(pairs) = 1 THEN m ELSE m \o <<",">> \o DumpPairs(Tail(pairs))

ClipObj(start, end, description) ==
  JDict(<< <<(<<"start">>), JStr(start)>>,
           <<(<<"end">>), JStr(end)>>,
           <<(<<"description">>), JStr(description)>> >>)

ClipA == ClipObj(<<"00:01:02">>, <<"00:01:30">>, <<"x">>)
ClipB == ClipObj(<<"00:02:00">>, <<"00:02:20">>, <<"y", " ", "z">>)
\* a description that quotes a code fence
ClipFenced == ClipObj(<<"00:03:00">>, <<"00:03:30">>, <<"x", Tick, Tick, Tick, "y">>)
\* no "end"
ClipPartial == JDict(<< <<(<<"start">>), JStr(<<"00:01:02">>)>>,
                        <<(<<"description">>), JStr(<<"x">>)>> >>)

Wrapped(v) == JDict(<< <<(<<"clips">>), v>> >>)

ClipLists ==
  { JList(<<>>), JList(<<ClipA>>), JList(<<ClipA, ClipB>>), JList(<<ClipB, ClipA>>),
    JList(<<ClipFenced>>), JList(<<ClipA, ClipPartial>>), JList(<<JNum>>) }

OtherValues ==
  { JNum, JBool, JNull, JStr(<<"x">>), JDict(<<>>),
    JDict(<< <<(<<"moments">>), JList(<<ClipA>>)>> >>),
    JDict(<< <<(<<Tick, Tick, Tick, "clips">>), JNum>> >>),
    Wrapped(JNum), Wrapped(JNull) }

\* ```json <newline> T <newline> ```
FenceWrap(text) == FenceJson \o <<"\n">> \o text \o <<"\n">> \o Fence
\* the same with nothing between the fences and T
FenceWrapTight(text) == FenceJson \o text \o Fence

PlainTexts ==
  {Dumps(v) : v \in ClipLists} \cup {Dumps(Wrapped(v)) : v \in ClipLists}
    \cup {Dumps(v) : v \in OtherValues}

DamagedTexts ==
  { <<>>, <<"json">>, <<Tick>>, <<"Sorry">>, <<"[">>, <<"1", " ", "1">>,
    <<" ">> \o Dumps(Wrapped(JList(<<ClipA>>))) \o <<"\n">>,
    <<"[">> \o Fence \o <<"]">>,
    Dumps(JList(<<ClipA>>)) \o <<Tick, Tick>>,
    <<Tick, Tick, "json">> \o Dumps(JNum),
    FenceWrap(Dumps(Wrapped(JList(<<ClipA, ClipB>>)))),
    FenceWrapTight(Dumps(JList(<<ClipA>>))) }

ReplyTexts == PlainTexts \cup DamagedTexts
(***************************************************************************)
(* base64.b64decode(s) with validate=False: characters outside the         *)
(* alphabet are skipped, then the padding is checked.  The result is the   *)
(* number of bytes decoded.                                                *)
(***************************************************************************)
B64Alphabet == {"Q", "U", "J", "D"}

RECURSIVE A2bBase64(_, _, _, _, _)
A2bBase64(s, i, quad_pos, pads, n) ==
  IF i > Len(s)
  THEN IF quad_pos = 0 THEN [ok |-> TRUE, n |-> n, err |-> ""]
       ELSE IF quad_pos = 1
       THEN [ok |-> FALSE, n |-> 0,
             err |-> "Invalid base64-encoded string: number of data characters cannot be 1 more than a multiple of 4"]
       ELSE [ok |-> FALSE, n |-> 0, err |-> "Incorrect padding"]
  ELSE IF s[i] = "="
  THEN IF quad_pos >= 2 /\ quad_pos + pads + 1 >= 4
       THEN [ok |-> TRUE, n |-> n, err |-> ""]
       ELSE A2bBase64(s, i + 1, quad_pos, IF quad_pos >= 2 THEN pads + 1 ELSE pads, n)
  ELSE IF s[i] \notin B64Alphabet
  THEN A2bBase64(s, i + 1, quad_pos, pads, n)
  ELSE A2bBase64(s, i + 1, (quad_pos + 1) % 4, 0, IF quad_pos = 0 THEN n ELSE n + 1)

B64Decode(s) == A2bBase64(s, 1, 0, 0, 0)

(***************************************************************************)
(* Requests.  An Optional[str] field is null or a string of tokens.        *)
(***************************************************************************)
Null == [null |-> TRUE, s |-> <<>>]
Some(s) == [null |-> FALSE, s |-> s]
\* Python truthiness of an Optional[str]: None and "" are both false.
Truthy(f) == ~f.null /\ f.s # <<>>

UrlValues == {Null, Some(<<>>), Some(<<"https://youtu.be/v">>)}
B64Values ==
  { Null, Some(<<>>), Some(<<"Q", "U", "J", "D">>), Some(<<"Q", "!", "Q", "=", "=">>),
    Some(<<"Q", "U", "J">>) }

AnalyzeRequest == [video_url : UrlValues, video_base64 : B64Values]

\* Transport with the payload tested before the URL.
TransportPayloadFirst(request) ==
  IF Truthy(request.video_base64) THEN "upload"
  ELSE IF Truthy(request.video_url) THEN "url"
  ELSE "missing"

\* The if / elif / else of lines 135, 143 and 187.
Transport(request) ==
  IF Truthy(request.video_url) THEN "url"
  ELSE IF Truthy(request.video_base64) THEN "upload"
  ELSE "missing"

(***************************************************************************)
(* The provider and the local file system.                                 *)
(***************************************************************************)
\* The processing states of an uploaded file.  The code names PROCESSING
\* and FAILED; READY and UPLOADING are the other two states of the enum.
FileStates == {"UPLOADING", "PROCESSING", "READY", "FAILED"}

Requests == {1, 2}
TmpNames == {"/tmp/tmpa.mp4", "/tmp/tmpb.mp4"}
AssetName(r) == "files/" \o ToString(r)

NoFile == [name |-> "", state |-> "", uri |-> "", mime_type |-> ""]
NoPart == [file_uri |-> <<>>, mime_type |-> ""]
\* types.Part.from_uri(file_uri=..., mime_type=...)
PartFromUri(file_uri, mime_type) == [file_uri |-> file_uri, mime_type |-> mime_type]

\* Counters of the sleep and status-query calls stop counting here.
MaxPolls == 2
Bump(n) == IF n < MaxPolls THEN n + 1 ELSE n

NoCalls == [decode |-> 0, tmpfile |-> 0, upload |-> 0, get |-> 0, sleep |-> 0,
            from_uri |-> 0, unlink |-> 0, delete |-> 0, generate |-> 0]

NoResponse == [status |-> 0, clips |-> <<>>, detail |-> ""]
\* A returned AnalyzeResponse is sent with status 200.
OkResponse(clips) == [status |-> 200, clips |-> clips, detail |-> ""]
\* An HTTPException leaving the handler is sent with its status and detail.
ErrorResponse(e) == [status |-> e.status, clips |-> <<>>, detail |-> e.detail]

\* OuterExcept letting an HTTPException through unchanged.
OuterExceptKeepsHttp(e) ==
  IF e.type = "HTTPException" THEN e ELSE HTTPException(500, Str(e))

\* Lines 219-221: what the outermost handler raises for a caught exception.
OuterExcept(e) == HTTPException(500, Str(e))

\* StillProcessing of a loop that never waits.
StillProcessingNever(video_file) == FALSE

\* Line 158: the loop condition.
StillProcessing(video_file) == video_file.state = "PROCESSING"
\* ProcessingFailed without the test.
ProcessingFailedNever(video_file) == FALSE

\* Line 164.
ProcessingFailed(video_file) == video_file.state = "FAILED"

VARIABLES
  texts,         \* the reply texts the model may give
  slept,         \* the waits each handler has made, modulo 2
  todo,          \* requests sent by a client whose handler has not started
  loop,          \* the request whose handler the event loop is running, or 0
  pc,            \* where each request's handler stands
  request,       \* the body of each request
  video_bytes,   \* the decoded payload (its length)
  created,       \* the scratch file NamedTemporaryFile made for the request
  tmp_path,      \* the handler's tmp_path, once assigned
  files,         \* the paths that exist on the local disk
  video_file,    \* the handler's video_file
  remote,        \* the assets the provider holds
  content_part,  \* the handler's content_part
  reply,         \* the model's reply
  exc,           \* the exception being propagated
  response,      \* the response sent to the client
  calls          \* how often each external operation was performed

vars == <<texts, slept, todo, loop, pc, request, video_bytes, created, tmp_path, files, video_file,
          remote, content_part, reply, exc, response, calls>>

NoRequest == [video_url |-> Null, video_base64 |-> Null]

InitCommon ==
  /\ loop = 0
  /\ slept = [r \in Requests |-> 0]
  /\ pc = [r \in Requests |-> "idle"]
  /\ video_bytes = [r \in Requests |-> 0]
  /\ created = [r \in Requests |-> ""]
  /\ tmp_path = [r \in Requests |-> ""]
  /\ files = {}
  /\ video_file = [r \in Requests |-> NoFile]
  /\ remote = {}
  /\ content_part = [r \in Requests |-> NoPart]
  /\ reply = [r \in Requests |-> NoReply]
  /\ exc = [r \in Requests |-> NoExc]
  /\ response = [r \in Requests |-> NoResponse]
  /\ calls = [r \in Requests |-> NoCalls]

\* One client has sent one request, with any body.
Init ==
  /\ InitCommon
  /\ todo = {1}
  /\ \E body \in AnalyzeRequest :
       request = [r \in Requests |-> IF r = 1 THEN body ELSE NoRequest]
  /\ texts = ReplyTexts

Count(r, op) == [calls EXCEPT ![r][op] = @ + 1]

\* raise e at a place covered only by the outermost try
RaiseOuter(r, e) ==
  /\ exc' = [exc EXCEPT ![r] = e]
  /\ pc' = [pc EXCEPT ![r] = "except_outer"]
\* raise e inside the inner try of the upload branch
RaiseInner(r, e) ==
  /\ exc' = [exc EXCEPT ![r] = e]
  /\ pc' = [pc EXCEPT ![r] = "except_inner"]

\* The event loop, when free, starts the handler of a request that was sent.
\* The handler is a coroutine without an await, so it keeps the loop until
\* it returns or raises.
Arrive(r) ==
  /\ r \in todo
  /\ loop = 0
  /\ todo' = todo \ {r}
  /\ loop' = r
  /\ pc' = [pc EXCEPT ![r] = "select"]
  /\ UNCHANGED <<texts, slept, request, video_bytes, created, tmp_path, files, video_file, remote,
                 content_part, reply, exc, response, calls>>

\* Lines 132-135, 143, 187-188.
Select(r) ==
  /\ pc[r] = "select"
  /\ CASE Transport(request[r]) = "url" ->
            pc' = [pc EXCEPT ![r] = "url_part"] /\ exc' = exc
       [] Transport(request[r]) = "upload" ->
            pc' = [pc EXCEPT ![r] = "decode"] /\ exc' = exc
       [] OTHER ->
            RaiseOuter(r, HTTPException(400, "Either video_url or video_base64 required"))
  /\ UNCHANGED <<texts, slept, todo, loop, request, video_bytes, created, tmp_path, files, video_file,
                 remote, content_part, reply, response, calls>>

\* Lines 136-140.
UrlPart(r) ==
  /\ pc[r] = "url_part"
  /\ calls' = Count(r, "from_uri")
  /\ \/ /\ content_part' = [content_part EXCEPT
                              ![r] = PartFromUri(request[r].video_url.s, "video/mp4")]
        /\ pc' = [pc EXCEPT ![r] = "generate"]
        /\ exc' = exc
     \/ /\ RaiseOuter(r, Exc("ValueError", "invalid file_uri"))
        /\ content_part' = content_part
  /\ UNCHANGED <<texts, slept, todo, loop, request, video_bytes, created, tmp_path, files, video_file,
                 remote, reply, response>>

\* Lines 144-146.
Decode(r) ==
  /\ pc[r] = "decode"
  /\ calls' = Count(r, "decode")
  /\ LET d == B64Decode(request[r].video_base64.s) IN
       IF d.ok
       THEN /\ video_bytes' = [video_bytes EXCEPT ![r] = d.n]
            /\ pc' = [pc EXCEPT ![r] = "tmpfile"]
            /\ exc' = exc
       ELSE /\ RaiseOuter(r, Exc("binascii.Error", d.err))
            /\ video_bytes' = video_bytes
  /\ UNCHANGED <<texts, slept, todo, loop, request, created, tmp_path, files, video_file, remote,
                 content_part, reply, response>>

\* TmpFile writing every payload to one fixed path.
TmpFileFixedName(r) ==
  /\ pc[r] = "tmpfile"
  /\ calls' = Count(r, "tmpfile")
  /\ \/ \E name \in {"/tmp/tmpa.mp4"} :
          /\ files' = files \cup {name}
          /\ created' = [created EXCEPT ![r] = name]
          /\ \/ /\ tmp_path' = [tmp_path EXCEPT ![r] = name]
                /\ pc' = [pc EXCEPT ![r] = "upload"]
                /\ exc' = exc
             \/ /\ RaiseOuter(r, Exc("OSError", "[Errno 28] No space left on device"))
                /\ tmp_path' = tmp_path
     \/ /\ RaiseOuter(r, Exc("OSError", "[Errno 13] Permission denied"))
        /\ UNCHANGED <<files, created, tmp_path>>
  /\ UNCHANGED <<texts, slept, todo, loop, request, video_bytes, video_file, remote, content_part,
                 reply, response>>

\* Lines 149-151: NamedTemporaryFile(delete=False) creates a file under a
\* name no existing file has; write may fail after the file exists.  This
\* block is outside the inner try.
TmpFile(r) ==
  /\ pc[r] = "tmpfile"
  /\ calls' = Count(r, "tmpfile")
  /\ \/ \E name \in TmpNames \ files :
          /\ files' = files \cup {name}
          /\ created' = [created EXCEPT ![r] = name]
          /\ \/ /\ tmp_path' = [tmp_path EXCEPT ![r] = name]
                /\ pc' = [pc EXCEPT ![r] = "upload"]
                /\ exc' = exc
             \/ /\ RaiseOuter(r, Exc("OSError", "[Errno 28] No space left on device"))
                /\ tmp_path' = tmp_path
     \/ /\ RaiseOuter(r, Exc("OSError", "[Errno 13] Permission denied"))
        /\ UNCHANGED <<files, created, tmp_path>>
  /\ UNCHANGED <<texts, slept, todo, loop, request, video_bytes, video_file, remote, content_part,
                 reply, response>>

\* Line 155.
Upload(r) ==
  /\ pc[r] = "upload"
  /\ calls' = Count(r, "upload")
  /\ \/ \E st \in FileStates :
          /\ video_file' = [video_file EXCEPT
                              ![r] = [name |-> AssetName(r), state |-> st,
                                      uri |-> "https://provider/" \o AssetName(r),
                                      mime_type |-> "video/mp4"]]
          /\ remote' = remote \cup {AssetName(r)}
          /\ pc' = [pc EXCEPT ![r] = "wait"]
          /\ exc' = exc
     \/ /\ RaiseInner(r, Exc("ClientError", "upload failed"))
        /\ UNCHANGED <<video_file, remote>>
  /\ UNCHANGED <<texts, slept, todo, loop, request, video_bytes, created, tmp_path, files,
                 content_part, reply, response>>

\* Lines 158-162: one turn of the loop.
Poll(r) ==
  /\ pc[r] = "wait"
  /\ StillProcessing(video_file[r])
  /\ calls' = [calls EXCEPT ![r].sleep = Bump(@), ![r].get = Bump(@)]
  /\ slept' = [slept EXCEPT ![r] = (@ + 1) % 2]
  /\ \/ \E st \in FileStates :
          /\ video_file' = [video_file EXCEPT ![r].state = st]
          /\ UNCHANGED <<pc, exc>>
     \/ /\ RaiseInner(r, Exc("ClientError", "status query failed"))
        /\ video_file' = video_file
  /\ UNCHANGED <<texts, todo, loop, request, video_bytes, created, tmp_path, files, remote,
                 content_part, reply, response>>

\* Lines 158 (loop exit), 164-165.
CheckState(r) ==
  /\ pc[r] = "wait"
  /\ ~StillProcessing(video_file[r])
  /\ IF ProcessingFailed(video_file[r])
     THEN RaiseInner(r, HTTPException(500, "Video processing failed"))
     ELSE pc' = [pc EXCEPT ![r] = "file_part"] /\ exc' = exc
  /\ UNCHANGED <<texts, slept, todo, loop, request, video_bytes, created, tmp_path, files, video_file,
                 remote, content_part, reply, response, calls>>

\* Lines 167-170.
FilePart(r) ==
  /\ pc[r] = "file_part"
  /\ calls' = Count(r, "from_uri")
  /\ \/ /\ content_part' = [content_part EXCEPT
                              ![r] = PartFromUri(<<video_file[r].uri>>,
                                                 video_file[r].mime_type)]
        /\ pc' = [pc EXCEPT ![r] = "unlink"]
        /\ exc' = exc
     \/ /\ RaiseInner(r, Exc("ValueError", "invalid file_uri"))
        /\ content_part' = content_part
  /\ UNCHANGED <<texts, slept, todo, loop, request, video_bytes, created, tmp_path, files, video_file,
                 remote, reply, response>>

\* Lines 172-173.
Unlink(r) ==
  /\ pc[r] = "unlink"
  /\ calls' = Count(r, "unlink")
  /\ files' = files \ {tmp_path[r]}
  /\ pc' = [pc EXCEPT ![r] = "delete"]
  /\ UNCHANGED <<texts, slept, todo, loop, request, video_bytes, created, tmp_path, video_file, remote,
                 content_part, reply, exc, response>>

\* RemoteDelete without the try / except around the delete.
RemoteDeleteRaises(r) ==
  /\ pc[r] = "delete"
  /\ calls' = Count(r, "delete")
  /\ \/ /\ remote' = remote \ {video_file[r].name}
        /\ pc' = [pc EXCEPT ![r] = "generate"]
        /\ exc' = exc
     \/ /\ remote' = remote
        /\ RaiseInner(r, Exc("ClientError", "delete failed"))
  /\ UNCHANGED <<texts, slept, todo, loop, request, video_bytes, created, tmp_path, files, video_file,
                 content_part, reply, response>>

\* Lines 175-179: the delete may raise; the bare except swallows it.
RemoteDelete(r) ==
  /\ pc[r] = "delete"
  /\ calls' = Count(r, "delete")
  /\ \/ remote' = remote \ {video_file[r].name}
     \/ remote' = remote
  /\ pc' = [pc EXCEPT ![r] = "generate"]
  /\ UNCHANGED <<texts, slept, todo, loop, request, video_bytes, created, tmp_path, files, video_file,
                 content_part, reply, exc, response>>

\* Lines 181-185.
ExceptInner(r) ==
  /\ pc[r] = "except_inner"
  /\ files' = files \ {tmp_path[r]}
  /\ pc' = [pc EXCEPT ![r] = "except_outer"]
  /\ UNCHANGED <<texts, slept, todo, loop, request, video_bytes, created, tmp_path, video_file, remote,
                 content_part, reply, exc, response, calls>>

\* Generate calling the model again after an error.
GenerateRetries(r) ==
  /\ pc[r] = "generate"
  /\ calls' = Count(r, "generate")
  /\ \/ /\ \E t \in texts : reply' = [reply EXCEPT ![r] = TextReply(t)]
        /\ pc' = [pc EXCEPT ![r] = "parse"]
        /\ exc' = exc
     \/ UNCHANGED <<reply, pc, exc>>
  /\ UNCHANGED <<texts, slept, todo, loop, request, video_bytes, created, tmp_path, files, video_file,
                 remote, content_part, response>>

\* Lines 190-203.
Generate(r) ==
  /\ pc[r] = "generate"
  /\ calls' = Count(r, "generate")
  /\ \/ /\ \E t \in texts : reply' = [reply EXCEPT ![r] = TextReply(t)]
        /\ pc' = [pc EXCEPT ![r] = "parse"]
        /\ exc' = exc
     \/ /\ reply' = [reply EXCEPT ![r] = NoTextReply]
        /\ pc' = [pc EXCEPT ![r] = "parse"]
        /\ exc' = exc
     \/ /\ RaiseOuter(r, Exc("ClientError", "generate_content failed"))
        /\ reply' = reply
  /\ UNCHANGED <<texts, slept, todo, loop, request, video_bytes, created, tmp_path, files, video_file,
                 remote, content_part, response>>

\* Lines 205-217.
Parse(r) ==
  /\ pc[r] = "parse"
  /\ LET p == ParseResponse(reply[r]) IN
       IF p.ok
       THEN /\ response' = [response EXCEPT ![r] = OkResponse(p.clips)]
            /\ pc' = [pc EXCEPT ![r] = "done"]
            /\ loop' = 0
            /\ exc' = exc
       ELSE /\ RaiseOuter(r, p.exc)
            /\ UNCHANGED <<response, loop>>
  /\ UNCHANGED <<texts, slept, todo, request, video_bytes, created, tmp_path, files, video_file, remote,
                 content_part, reply, calls>>

\* Lines 219-221; the HTTPException raised here leaves the handler.
ExceptOuter(r) ==
  /\ pc[r] = "except_outer"
  /\ response' = [response EXCEPT ![r] = ErrorResponse(OuterExcept(exc[r]))]
  /\ pc' = [pc EXCEPT ![r] = "done"]
  /\ loop' = 0
  /\ UNCHANGED <<texts, slept, todo, request, video_bytes, created, tmp_path, files, video_file, remote,
                 content_part, reply, exc, calls>>

\* One step of the handling of request r.
Step(r) ==
    \/ Arrive(r)
    \/ Select(r)
    \/ UrlPart(r)
    \/ Decode(r)
    \/ TmpFile(r)
    \/ Upload(r)
    \/ Poll(r)
    \/ CheckState(r)
    \/ FilePart(r)
    \/ Unlink(r)
    \/ RemoteDelete(r)
    \/ ExceptInner(r)
    \/ Generate(r)
    \/ Parse(r)
    \/ ExceptOuter(r)

Next == \E r \in Requests : Step(r)

Spec == Init /\ [][Next]_vars

\* The interpreter keeps running a handler that can take a step, and the
\* event loop starts a waiting request when it is free.
Fairness == \A r \in Requests : WF_vars(Step(r))


\* Two clients have each sent a request: the first with an embedded payload,
\* the second with the same payload or with a URL only.
PayloadBody == [video_url |-> Null, video_base64 |-> Some(<<"Q", "U", "J", "D">>)]
UrlBody == [video_url |-> Some(<<"https://youtu.be/v">>), video_base64 |-> Null]
\* The replies of the specifications with fairness: an empty list of clips
\* and a text that is not JSON.
TwoTexts == {<<"[", "]">>, <<"Sorry">>}

\* One request with any body, answered by one of the short replies.
InitLive ==
  /\ InitCommon
  /\ todo = {1}
  /\ \E body \in AnalyzeRequest :
       request = [r \in Requests |-> IF r = 1 THEN body ELSE NoRequest]
  /\ texts = TwoTexts

SpecLive == InitLive /\ [][Next]_vars /\ Fairness

InitTwo ==
  /\ InitCommon
  /\ todo = Requests
  /\ \E body \in {PayloadBody, UrlBody} :
       request = [r \in Requests |-> IF r = 1 THEN PayloadBody ELSE body]
  /\ texts = TwoTexts

SpecTwo == InitTwo /\ [][Next]_vars /\ Fairness

(***************************************************************************)
(* Properties.                                                             *)
(***************************************************************************)
Done(r) == pc[r] = "done"
OnUploadBranch(r) == pc[r] # "idle" /\ Transport(request[r]) = "upload"

\* The response a request ends with when the normaliser gives p.
OutcomeOf(p) ==
  IF p.ok THEN OkResponse(p.clips)
  ELSE [status |-> 500, clips |-> <<>>, detail |-> Str(p.exc)]

\* C1: a request with neither video_url nor video_base64 set is answered
\* with status 400, not 500, and no upload, status query or inference call
\* is made for it.
C1_MissingInputIs400 ==
  \A r \in Requests :
    (pc[r] # "idle" /\ Transport(request[r]) = "missing") =>
      /\ calls[r].upload = 0 /\ calls[r].get = 0 /\ calls[r].generate = 0
      /\ Done(r) => response[r].status = 400

\* C2: on the embedded-payload path, once the provider has reported FAILED
\* (from the upload or from a later status query) no inference call is made,
\* the request ends with status 500, and its scratch file is gone when the
\* response is produced.
C2_FailedStateIs500 ==
  \A r \in Requests :
    (OnUploadBranch(r) /\ video_file[r].state = "FAILED") =>
      /\ calls[r].generate = 0
      /\ pc[r] \in {"wait", "except_inner", "except_outer", "done"}
      /\ Done(r) => /\ response[r].status = 500
                    /\ created[r] \notin files

C2_Witness ==
  \E r \in Requests :
    /\ Done(r) /\ OnUploadBranch(r)
    /\ video_file[r].state = "FAILED"
    /\ calls[r].get > 0
    /\ response[r].status = 500

\* C3: for a request on the upload branch, whatever the exit path, the
\* scratch file created for it no longer exists when its response is
\* produced.
C3_ScratchFileGone ==
  \A r \in Requests :
    (Done(r) /\ OnUploadBranch(r) /\ created[r] # "") => created[r] \notin files

\* C4: for a request with video_url set, with or without video_base64, no
\* base64 decode, scratch file, upload, status query or remote delete ever
\* happens, and the content reference handed to the inference call is the
\* one built from the URL with media type video/mp4.
C4_UrlPathDoesNoUpload ==
  \A r \in Requests :
    (pc[r] # "idle" /\ Truthy(request[r].video_url)) =>
      /\ calls[r].decode = 0 /\ calls[r].tmpfile = 0 /\ calls[r].upload = 0
      /\ calls[r].get = 0 /\ calls[r].sleep = 0 /\ calls[r].delete = 0
      /\ calls[r].unlink = 0
      /\ created[r] = "" /\ tmp_path[r] = "" /\ video_file[r] = NoFile
      /\ calls[r].generate > 0 =>
           /\ content_part[r].file_uri = request[r].video_url.s
           /\ content_part[r].mime_type = "video/mp4"

C4_Witness ==
  \E r \in Requests :
    /\ Done(r)
    /\ Truthy(request[r].video_url) /\ Truthy(request[r].video_base64)
    /\ calls[r].generate = 1
    /\ response[r].status = 200

\* C5: on the upload branch a content reference is built and the inference
\* call is issued only when the last state the provider reported is READY.
C5_InferenceOnlyWhenReady ==
  \A r \in Requests :
    (OnUploadBranch(r) /\ (content_part[r] # NoPart \/ calls[r].generate > 0)) =>
      video_file[r].state = "READY"

\* C6: every failure other than missing input ends the request with status
\* 500 whose detail is str() of the error that was raised; it never ends
\* with 200 and the handler is never left without a next step.
MissingInput == HTTPException(400, "Either video_url or video_base64 required")

C6_FailuresAre500 ==
  \A r \in Requests :
    (exc[r] # NoExc /\ exc[r] # MissingInput) =>
      /\ pc[r] \in {"except_inner", "except_outer", "done"}
      /\ response[r].status # 200
      /\ Done(r) =>
           /\ response[r].status = 500
           /\ response[r].detail =
                (IF exc[r].type = "HTTPException"
                 THEN ToString(exc[r].status) \o ": " \o exc[r].detail
                 ELSE exc[r].detail)

C6_Witness ==
  \E r \in Requests :
    /\ Done(r)
    /\ exc[r].type = "ValidationError"
    /\ response[r].status = 500
    /\ response[r].detail = exc[r].detail

\* The clips of a reply text: it parses as JSON to a mapping whose "clips"
\* member is a list of objects with string start, end and description.
HasClipList(v) ==
  /\ v.t = "dict" /\ HasKey(v, <<"clips">>)
  /\ Lookup(v, <<"clips">>).t = "list"
  /\ \A i \in 1..Len(Lookup(v, <<"clips">>).items) :
       IsClip(Lookup(v, <<"clips">>).items[i])

\* C7: when the model's reply parses to a mapping with a "clips" list of
\* well-formed clip objects, the response has status 200 and exactly those
\* clips: same count, same order, same start, end and description.
C7_ClipsRoundTrip ==
  \A r \in Requests :
    (Done(r) /\ reply[r].kind = "text") =>
      LET v == Loads(reply[r].text) IN
        (v.ok /\ HasClipList(v.val)) =>
          LET items == Lookup(v.val, <<"clips">>).items IN
            /\ response[r].status = 200
            /\ Len(response[r].clips) = Len(items)
            /\ \A i \in 1..Len(items) :
                 /\ response[r].clips[i].start = Lookup(items[i], <<"start">>).s
                 /\ response[r].clips[i].end = Lookup(items[i], <<"end">>).s
                 /\ response[r].clips[i].description =
                      Lookup(items[i], <<"description">>).s

\* C8: when the model's reply parses as JSON to a value that is neither a
\* mapping with a "clips" key nor a list, the request ends with status 200
\* and an empty clip list.
C8_OtherShapesGiveEmpty ==
  \A r \in Requests :
    (Done(r) /\ reply[r].kind = "text") =>
      LET v == Loads(reply[r].text) IN
        (v.ok /\ v.val.t # "list" /\ ~(v.val.t = "dict" /\ HasKey(v.val, <<"clips">>))) =>
          /\ response[r].status = 200
          /\ response[r].clips = <<>>

\* C9: a reply that is a bare JSON array L ends the request exactly as the
\* reply {"clips": L} would: same status, same clips in the same order, same
\* error text.
C9_BareArrayLikeWrapped ==
  \A r \in Requests :
    (Done(r) /\ reply[r].kind = "text") =>
      LET v == Loads(reply[r].text) IN
        (v.ok /\ v.val.t = "list") =>
          response[r] = OutcomeOf(ParseResponse(TextReply(Dumps(Wrapped(v.val)))))

C9_Witness ==
  \E r \in Requests :
    /\ Done(r) /\ reply[r].kind = "text"
    /\ Loads(reply[r].text).ok /\ Loads(reply[r].text).val.t = "list"
    /\ response[r].status = 200
    /\ Len(response[r].clips) = 2
    /\ response[r].clips[1] # response[r].clips[2]

\* C10: a reply text T and T wrapped in code fences (```json before, ```
\* after, with or without line breaks in between) end the request the same
\* way: the same clips or the same error.
C10_FencesChangeNothing ==
  \A r \in Requests :
    (Done(r) /\ reply[r].kind = "text") =>
      /\ response[r] = OutcomeOf(ParseResponse(TextReply(FenceWrap(reply[r].text))))
      /\ response[r] = OutcomeOf(ParseResponse(TextReply(FenceWrapTight(reply[r].text))))

C10_Witness ==
  \E r \in Requests :
    /\ Done(r) /\ reply[r].kind = "text"
    /\ reply[r].text # <<>> /\ Head(reply[r].text) = "{"
    /\ response[r].status = 200
    /\ Len(response[r].clips) = 2
    /\ ParseResponse(TextReply(FenceWrap(reply[r].text))).ok

\* C11: on the upload branch the scratch file is deleted at line 173 and the
\* remote delete is attempted only after the inference call of the request
\* has completed.
C11_CleanupAfterInference ==
  \A r \in Requests :
    (OnUploadBranch(r) /\ (calls[r].unlink > 0 \/ calls[r].delete > 0)) =>
      calls[r].generate > 0

\* C12: a request whose upload succeeded has attempted the delete of the
\* remote asset by the time its response is produced, on every path.
C12_RemoteDeleteOnEveryPath ==
  \A r \in Requests :
    (Done(r) /\ video_file[r] # NoFile) => calls[r].delete > 0

GenerateFailed == Exc("ClientError", "generate_content failed")

\* The response that follows from the inference call alone.
AfterInference(r) ==
  IF reply[r].kind = "none"
  THEN [status |-> 500, clips |-> <<>>, detail |-> GenerateFailed.detail]
  ELSE OutcomeOf(ParseResponse(reply[r]))

\* C13: once the remote delete has been attempted, whether it succeeded or
\* raised, the handler goes on to the inference call and normalisation, no
\* exception of the delete is in flight, and the response is the one the
\* inference call's result determines.
C13_DeleteFailureIgnored ==
  \A r \in Requests :
    calls[r].delete > 0 =>
      /\ pc[r] \in {"generate", "parse", "except_outer", "done"}
      /\ exc[r] \in {NoExc, GenerateFailed} \/ exc[r] = ParseResponse(reply[r]).exc
      /\ pc[r] \in {"generate", "parse"} => exc[r] = NoExc
      /\ Done(r) => /\ calls[r].generate = 1
                    /\ response[r] = AfterInference(r)

C13_Witness ==
  \E r \in Requests :
    /\ Done(r)
    /\ calls[r].delete = 1
    /\ video_file[r].name \in remote
    /\ response[r].status = 200
    /\ response[r].clips # <<>>

\* C17: a request issues at most one upload and at most one inference call;
\* an error of the inference call is followed by no further call and ends
\* the request with status 500.
C17_NoRetry ==
  \A r \in Requests :
    /\ calls[r].upload <= 1
    /\ calls[r].generate <= 1
    /\ exc[r] = GenerateFailed =>
         /\ calls[r].generate = 1
         /\ reply[r] = NoReply
         /\ pc[r] \in {"except_outer", "done"}
         /\ Done(r) => response[r].status = 500

C17_Witness ==
  \E r \in Requests :
    /\ Done(r)
    /\ exc[r] = GenerateFailed
    /\ calls[r].upload = 1 /\ calls[r].generate = 1
    /\ response[r].status = 500

\* The handler of r is in the loop of lines 158-162 and the last reported
\* state is PROCESSING.
Polling(r) == pc[r] = "wait" /\ StillProcessing(video_file[r])

StatusQueryFailed == Exc("ClientError", "status query failed")

\* While the provider's last answer is PROCESSING the handler has no
\* response and has not built a content reference or called the model; it
\* can always query again, however often it already did; it sleeps once per
\* query; and a request ends with PROCESSING as the last state only through
\* a status query that raised.
PollingHolds(r) ==
  /\ Polling(r) => /\ response[r] = NoResponse
                   /\ content_part[r] = NoPart
                   /\ calls[r].generate = 0
                   /\ ENABLED Poll(r)
  /\ calls[r].sleep = calls[r].get
  /\ video_file[r].state = "PROCESSING" =>
       /\ calls[r].generate = 0
       /\ Done(r) => exc[r] = StatusQueryFailed /\ response[r].status = 500

\* C14: the polling loop has no limit.  As long as the provider answers
\* PROCESSING the request has no response and makes no inference call, with
\* one sleep per status query; and a request whose handler is not kept in
\* the loop for ever, every provider call returning, gets its response.
C14_UnboundedPolling ==
  /\ [](\A r \in Requests : PollingHolds(r))
  /\ \A r \in Requests : (r \in todo /\ <>[]~Polling(r)) => <>Done(r)

C14_Witness ==
  \E r \in Requests :
    /\ Done(r)
    /\ calls[r].get = MaxPolls /\ calls[r].sleep = MaxPolls
    /\ video_file[r].state = "READY"
    /\ response[r].status = 200

\* The state one request's handler works on.
Own(r) ==
  <<pc[r], slept[r], request[r], video_bytes[r], created[r], tmp_path[r], video_file[r],
    content_part[r], reply[r], exc[r], response[r], calls[r]>>

\* A step taken by request r leaves the other requests, their scratch files
\* and their assets alone.
ActsAlone(r) ==
  /\ \A q \in Requests \ {r} : Own(q)' = Own(q)
  /\ created'[r] # created[r] => created'[r] \notin files
  /\ files' \ files \subseteq {created'[r]}
  /\ files \ files' \subseteq {created[r]}
  /\ calls'[r].upload # calls[r].upload =>
       tmp_path[r] = created[r] /\ tmp_path[r] \in files
  /\ remote' \ remote \subseteq {video_file'[r].name}
  /\ remote \ remote' \subseteq {video_file[r].name}

\* A request answered 200 on the upload branch did its own work, once.
OwnWork(r) ==
  (Done(r) /\ OnUploadBranch(r) /\ response[r].status = 200) =>
    /\ calls[r].tmpfile = 1 /\ calls[r].upload = 1 /\ calls[r].generate = 1
    /\ calls[r].unlink = 1 /\ calls[r].delete = 1
    /\ \A q \in Requests \ {r} : video_file[q].name # video_file[r].name

C16_OthersNotBlocked ==
  \A r \in Requests :
    (r \in todo /\ Transport(request[r]) = "url") ~> Done(r)
====
